---- MODULE Spec2Model ----
(***************************************************************************)
(* Model of alarmclock.py: the resolver update_events() and the polling    *)
(* loop of the __main__ block.  Time is counted in whole seconds; it       *)
(* advances by the sleeps of the code, and by the wall clock during the    *)
(* sleepless spin of the alarm loop.                                       *)
(***************************************************************************)
EXTENDS Integers, Sequences, FiniteSets, TLC

\* ---------------------------------------------------------------- bounds
\* Last instant of the clock the model explores.
MaxTime == 9
\* Largest ALARMCLOCK_REFRESH_FREQUENCY explored (the code's default is 300).
MaxRefresh == 2
\* Length of the resolver's window, standing for td(days=7).
Window == 3
\* Largest number of entries of a served calendar.
MaxEvents == 2
\* Longest time one sleepless turn of the alarm loop is seen to take.
MaxSpin == 1
\* The instant the process starts at.
StartTime == 1

\* ------------------------------------------------------- program constants
\* time.sleep(1) after relay.on()
PulseTime == 1
\* time.sleep(3) after relay.off()
PauseTime == 3
\* time.sleep(1) of the outer loop and of the headless alarm loop
TickTime == 1

\* ------------------------------------------------------------ calendar data
Occ(s, e) == [start |-> s, end |-> e]

\* The occurrences a served calendar is made of: one that is running when the
\* process starts, one with the same start that outlasts the first window, and
\* one that starts after the first window.
Occurrences == {Occ(0, 3), Occ(0, 5), Occ(4, 6)}

RECURSIVE SeqsUpTo(_, _)
SeqsUpTo(S, n) ==
    IF n = 0 THEN {<<>>}
    ELSE LET shorter == SeqsUpTo(S, n - 1)
         IN shorter \cup {Append(q, x) : q \in shorter, x \in S}

\* The calendars the server may serve.
Feeds == SeqsUpTo(Occurrences, MaxEvents)

\* The local ical_string of update_events: unbound until a fetch succeeds;
\* valid is whether icalendar.Calendar.from_ical accepts the bytes.
Unbound == [bound |-> FALSE, valid |-> FALSE, cal |-> <<>>]
Payload(valid, cal) == [bound |-> TRUE, valid |-> valid, cal |-> cal]
Payloads == {Payload(TRUE, f) : f \in Feeds} \cup {Payload(FALSE, <<>>)}

\* The exceptions of a fetch: socket.timeout, HTTPError, any other URLError.
FailureKinds == {"timeout", "http", "transport"}

\* What urllib.request.urlopen(url).read() does: the bytes, or an exception.
FetchOutcomes ==
    [ok : {TRUE}, kind : {"ok"}, body : Payloads]
        \cup [ok : {FALSE}, kind : FailureKinds, body : {Unbound}]

\* The feed of the end-to-end scenario: one occurrence [now-1s, now+2s).
ScenarioFeed == <<Occ(StartTime - 1, StartTime + 2)>>

\* ------------------------------------------------- recurring_ical_events
\* An expansion that keeps every occurrence that starts before the span ends.
InSpanStartOnly(o, a, b) == o.start < b

\* between(start, stop): the occurrences that intersect the span.
InSpan(o, a, b) == o.start < b /\ a < o.end

Between(cal, a, b) == SelectSeq(cal, LAMBDA o : InSpan(o, a, b))

\* A test that counts an occurrence as running at its end.
RunningAtClosed(o, t) == o.start <= t /\ t <= o.end

\* at(t): the occurrences that are running at the instant t.
RunningAt(o, t) == o.start <= t /\ t < o.end

At(cal, t) == SelectSeq(cal, LAMBDA o : RunningAt(o, t))

\* An insertion that puts an occurrence before those of the same start.
RECURSIVE InsertUnstable(_, _)
InsertUnstable(sorted, o) ==
    IF sorted = <<>> THEN <<o>>
    ELSE IF sorted[Len(sorted)].start < o.start THEN Append(sorted, o)
    ELSE Append(InsertUnstable(SubSeq(sorted, 1, Len(sorted) - 1), o), sorted[Len(sorted)])

\* events.sort(key=lambda date: date["DTSTART"].dt): list.sort is stable.
RECURSIVE Insert(_, _)
Insert(sorted, o) ==
    IF sorted = <<>> THEN <<o>>
    ELSE IF sorted[Len(sorted)].start <= o.start THEN Append(sorted, o)
    ELSE Append(Insert(SubSeq(sorted, 1, Len(sorted) - 1), o), sorted[Len(sorted)])

RECURSIVE SortByStart(_)
SortByStart(s) ==
    IF s = <<>> THEN <<>>
    ELSE Insert(SortByStart(SubSeq(s, 1, Len(s) - 1)), s[Len(s)])

\* event_str: str(DTSTART) + str(DTEND) of every event, concatenated.  An
\* instant prints as two decimal digits.
StrOf(t) == <<t \div 10, t % 10>>

\* A string that leaves DTEND out.
RECURSIVE EventStrStartsOnly(_)
EventStrStartsOnly(evs) ==
    IF evs = <<>> THEN <<>>
    ELSE StrOf(evs[1].start) \o EventStrStartsOnly(Tail(evs))

RECURSIVE EventStr(_)
EventStr(evs) ==
    IF evs = <<>> THEN <<>>
    ELSE StrOf(evs[1].start) \o StrOf(evs[1].end) \o EventStr(Tail(evs))

\* hash(event_str): a hash of the characters of the string, here polynomial.
RECURSIVE Hash(_)
Hash(str) ==
    IF str = <<>> THEN 0
    ELSE (Hash(SubSeq(str, 1, Len(str) - 1)) * 31 + str[Len(str)] + 1) % 65521

\* ------------------------------------------------------------------- state
VARIABLES
    pc,                 \* where the single thread of control is
    now,                \* the clock, in seconds
    with_gpio,          \* FALSE when ALARMCLOCK_NO_GPIO is set
    refresh_frequency,  \* ALARMCLOCK_REFRESH_FREQUENCY
    caller,             \* the call site of the running update_events
    ical_string,        \* update_events: the bytes of the last good fetch
    u_calendar,         \* update_events: calendar
    u_events,           \* update_events: events
    calendar,           \* __main__: calendar
    events,             \* __main__: events
    event_hash,         \* __main__: event_hash
    last_update_time,   \* __main__: last_update_time
    relay,              \* relay.is_active
    fetch,              \* outcome of the latest fetch: "none", "ok", "failed"
    sensor,             \* the latest read of sensor.is_pressed: "unread", "pressed", "released"
    ever_pressed,       \* some read of sensor.is_pressed was true
    calls,              \* update_events calls since the alarm loop was last entered
    only_scenario,      \* every fetch so far served ScenarioFeed
    shown               \* show_summary calls of the latest step

vars == <<pc, now, with_gpio, refresh_frequency, caller, ical_string, u_calendar,
          u_events, calendar, events, event_hash, last_update_time, relay, fetch,
          sensor, ever_pressed, calls, only_scenario, shown>>

config == <<with_gpio, refresh_frequency>>
locals == <<ical_string, u_calendar, u_events>>
held == <<calendar, events, event_hash, last_update_time>>
hardware == <<relay, sensor, ever_pressed>>

\* The positions of the alarm loop: the state Active of the controller.
ActivePcs == {"inner", "pulse", "pause"}
Active == pc \in ActivePcs
Idle == ~Active

\* ------------------------------------------------------------------- start
\* The state on entry to update_events(url) at line 195: the relay is built with
\* initial_value=False, nothing has been fetched and __main__ holds nothing yet.
Init ==
    /\ pc = "resolve"
    /\ now = StartTime
    /\ with_gpio \in BOOLEAN
    /\ refresh_frequency \in 1..MaxRefresh
    /\ caller = "init"
    /\ ical_string = Unbound
    /\ u_calendar = <<>>
    /\ u_events = <<>>
    /\ calendar = <<>>
    /\ events = <<>>
    /\ event_hash = 0
    /\ last_update_time = 0
    /\ relay = FALSE
    /\ fetch = "none"
    /\ sensor = "unread"
    /\ ever_pressed = FALSE
    /\ calls = 1
    /\ only_scenario = TRUE
    /\ shown = 0

\* ------------------------------------------------------------ update_events
\* A call of update_events(url) from the call site `site`: fresh locals.
Call(site) ==
    /\ pc' = "resolve"
    /\ caller' = site
    /\ ical_string' = Unbound
    /\ u_calendar' = <<>>
    /\ u_events' = <<>>
    /\ fetch' = "none"
    /\ calls' = calls + 1

\* try: ical_string = urlopen(url).read() / except: pass.  A failed fetch leaves
\* ical_string as it was: unbound in the first turn, the earlier bytes later.
AfterFetch(r) == IF r.ok THEN r.body ELSE ical_string

\* A resolver that returns whatever the first poll yields.
NeverRepoll(evs) == FALSE

\* while len(events) < 1
NeedsRepoll(evs) == Len(evs) < 1

\* A caller that catches the exception and goes on with what it holds.
ContinueStale ==
    /\ pc' = "test"
    /\ UNCHANGED <<u_calendar, u_events>>

\* An exception that nothing catches unwinds update_events and __main__.
Propagate ==
    /\ pc' = "crashed"
    /\ UNCHANGED <<u_calendar, u_events>>

\* One turn of the while loop: the window, the fetch, the parse, the expansion
\* and the sort.  Reading an unbound ical_string raises UnboundLocalError, and
\* from_ical raises on malformed bytes.
UE_Poll ==
    /\ pc = "resolve"
    /\ \E r \in FetchOutcomes :
         LET bytes == AfterFetch(r)
             evs == SortByStart(Between(bytes.cal, now, now + Window))
         IN /\ ical_string' = bytes
            /\ fetch' = IF r.ok THEN "ok" ELSE "failed"
            /\ only_scenario' = (only_scenario /\ r.ok /\ r.body = Payload(TRUE, ScenarioFeed))
            /\ IF ~bytes.bound \/ ~bytes.valid
               THEN Propagate
               ELSE /\ u_calendar' = bytes.cal
                    /\ u_events' = evs
                    /\ pc' = IF NeedsRepoll(evs) THEN "ue_sleep" ELSE "ue_ret"
    /\ UNCHANGED <<now, config, caller, held, hardware, calls>>
    /\ shown' = 0

\* No events found: time.sleep(sleep_time), then the next turn.
UE_Sleep ==
    /\ pc = "ue_sleep"
    /\ now + refresh_frequency <= MaxTime
    /\ now' = now + refresh_frequency
    /\ pc' = "resolve"
    /\ UNCHANGED <<config, caller, locals, held, hardware, fetch, calls, only_scenario>>
    /\ shown' = 0

\* A return that leaves last_update_time as it was.
StampStale == last_update_time

\* last_update_time = time.time() after a resolve.
StampAfterResolve == now

\* A comparison that never stores the new hash.
KeepOldHash(new) == event_hash

\* if new_event_hash != event_hash: ...; event_hash = new_event_hash
StoredHash(new) == IF new # event_hash THEN new ELSE event_hash

\* A comparison that shows the summary after every resolve.
SummaryAlways(new) == 1

\* if new_event_hash != event_hash: show_summary(events)
SummaryOnChange(new) == IF new # event_hash THEN 1 ELSE 0

\* calendar, events, new_event_hash = update_events(url);
\* last_update_time = time.time(); the comparison of the hashes.
Adopt ==
    /\ calendar' = u_calendar
    /\ events' = u_events
    /\ event_hash' = StoredHash(Hash(EventStr(u_events)))
    /\ last_update_time' = StampAfterResolve

\* Lines 195-200: the first resolve returns, the summary is shown, the loop starts.
InitialResolve ==
    /\ pc = "ue_ret" /\ caller = "init"
    /\ calendar' = u_calendar
    /\ events' = u_events
    /\ event_hash' = Hash(EventStr(u_events))
    /\ last_update_time' = StampAfterResolve
    /\ shown' = 1
    /\ pc' = "tick"
    /\ UNCHANGED <<now, config, caller, locals, hardware, fetch, calls, only_scenario>>

\* Lines 207-211: the periodic resolve returns; the activation test follows.
RefreshReturn ==
    /\ pc = "ue_ret" /\ caller = "refresh"
    /\ Adopt
    /\ shown' = SummaryOnChange(Hash(EventStr(u_events)))
    /\ pc' = "test"
    /\ UNCHANGED <<now, config, caller, locals, hardware, fetch, calls, only_scenario>>

\* Lines 238-248: the resolve after an alarm returns, the summary is shown and
\* the outer loop sleeps its second.
PostAlarmReturn ==
    /\ pc = "ue_ret" /\ caller = "post"
    /\ now + TickTime <= MaxTime
    /\ Adopt
    /\ shown' = SummaryOnChange(Hash(EventStr(u_events))) + 1
    /\ now' = now + TickTime
    /\ pc' = "tick"
    /\ UNCHANGED <<config, caller, locals, hardware, fetch, calls, only_scenario>>

\* ------------------------------------------------------------ the outer loop
\* A refresh check that is late by a second.
RefreshDueLate == now > last_update_time + refresh_frequency + 1

\* int(time.time()) > (int(last_update_time) + int(refresh_frequency))
RefreshDue == now > last_update_time + refresh_frequency

\* len(recurring_ical_events.of(calendar).at(dt.now())) > 0
AlarmDue == Len(At(calendar, now)) > 0

\* Line 206: the refresh check of an outer tick.
RefreshCheck ==
    /\ pc = "tick"
    /\ IF RefreshDue
       THEN /\ Call("refresh")
            /\ UNCHANGED only_scenario
       ELSE /\ pc' = "test"
            /\ UNCHANGED <<caller, locals, fetch, calls, only_scenario>>
    /\ UNCHANGED <<now, config, held, hardware>>
    /\ shown' = 0

\* Line 217: the activation test of an outer tick.  True: 'Starting alarm', the
\* summary, and the alarm loop.  False: time.sleep(1) and the next tick.
ActivationTest ==
    /\ pc = "test"
    /\ IF AlarmDue
       THEN /\ pc' = "inner"
            /\ calls' = 0
            /\ shown' = 1
            /\ UNCHANGED now
       ELSE /\ now + TickTime <= MaxTime
            /\ now' = now + TickTime
            /\ pc' = "tick"
            /\ shown' = 0
            /\ UNCHANGED calls
    /\ UNCHANGED <<config, caller, locals, held, hardware, fetch, only_scenario>>

\* ------------------------------------------------------------ the alarm loop
\* An alarm loop that energizes the relay whatever the sensor says.
EnergizeAlways(pressed) == TRUE

\* if sensor.is_pressed: relay.on()
Energize(pressed) == pressed

\* Lines 221-230 with the sensor: the test still holds, the sensor is read.
\* Pressed: relay.on() and a sleep of a second.  Released: the relay is off, the
\* turn sleeps nowhere, and the loop spins on the wall clock.
InnerSensor ==
    /\ pc = "inner" /\ AlarmDue /\ with_gpio
    /\ \E pressed \in BOOLEAN :
         /\ sensor' = IF pressed THEN "pressed" ELSE "released"
         /\ ever_pressed' = (ever_pressed \/ pressed)
         /\ IF Energize(pressed)
            THEN /\ relay' = TRUE
                 /\ pc' = "pulse"
                 /\ UNCHANGED now
            ELSE IF relay
            THEN /\ relay' = FALSE
                 /\ pc' = "pause"
                 /\ UNCHANGED now
            ELSE /\ \E d \in 0..MaxSpin :
                      /\ now + d <= MaxTime
                      /\ now' = now + d
                 /\ pc' = "inner"
                 /\ UNCHANGED relay
    /\ UNCHANGED <<config, caller, locals, held, fetch, calls, only_scenario>>
    /\ shown' = 0

\* A pulse that is never switched off.
PulseEndNoOff ==
    /\ pc = "pulse"
    /\ now + PulseTime <= MaxTime
    /\ now' = now + PulseTime
    /\ pc' = "pause"
    /\ UNCHANGED <<config, caller, locals, held, hardware, fetch, calls, only_scenario>>
    /\ shown' = 0

\* A pulse whose end goes straight back to the test, the relay left as it is.
PulseEndSkipOff ==
    /\ pc = "pulse"
    /\ now + PulseTime <= MaxTime
    /\ now' = now + PulseTime
    /\ pc' = "inner"
    /\ UNCHANGED <<config, caller, locals, held, hardware, fetch, calls, only_scenario>>
    /\ shown' = 0

\* time.sleep(1) is over; if relay.is_active: relay.off().
PulseEnd ==
    /\ pc = "pulse"
    /\ now + PulseTime <= MaxTime
    /\ now' = now + PulseTime
    /\ IF relay
       THEN /\ relay' = FALSE
            /\ pc' = "pause"
       ELSE /\ pc' = "inner"
            /\ UNCHANGED relay
    /\ UNCHANGED <<config, caller, locals, held, sensor, ever_pressed, fetch, calls,
                   only_scenario>>
    /\ shown' = 0

\* A pause of one second instead of three.
PauseEndShort ==
    /\ pc = "pause"
    /\ now + TickTime <= MaxTime
    /\ now' = now + TickTime
    /\ pc' = "inner"
    /\ UNCHANGED <<config, caller, locals, held, hardware, fetch, calls, only_scenario>>
    /\ shown' = 0

\* A pause that ends with a refresh stamp taken inside the alarm loop.
PauseEndRestamp ==
    /\ pc = "pause"
    /\ now + PauseTime <= MaxTime
    /\ now' = now + PauseTime
    /\ pc' = "inner"
    /\ last_update_time' = IF RefreshDue THEN now + PauseTime ELSE last_update_time
    /\ UNCHANGED <<config, caller, locals, calendar, events, event_hash, hardware,
                   fetch, calls, only_scenario>>
    /\ shown' = 0

\* A pause of four seconds instead of three.
PauseEndLong ==
    /\ pc = "pause"
    /\ now + PauseTime + TickTime <= MaxTime
    /\ now' = now + PauseTime + TickTime
    /\ pc' = "inner"
    /\ UNCHANGED <<config, caller, locals, held, hardware, fetch, calls, only_scenario>>
    /\ shown' = 0

\* time.sleep(3) is over: back to the test of the alarm loop.
PauseEnd ==
    /\ pc = "pause"
    /\ now + PauseTime <= MaxTime
    /\ now' = now + PauseTime
    /\ pc' = "inner"
    /\ UNCHANGED <<config, caller, locals, held, hardware, fetch, calls, only_scenario>>
    /\ shown' = 0

\* A headless alarm loop that sleeps three seconds per test.
InnerHeadlessSlow ==
    /\ pc = "inner" /\ AlarmDue /\ ~with_gpio
    /\ now + PauseTime <= MaxTime
    /\ now' = now + PauseTime
    /\ pc' = "inner"
    /\ UNCHANGED <<config, caller, locals, held, hardware, fetch, calls, only_scenario>>
    /\ shown' = 0

\* Lines 231-235 without GPIO: 'Triggering alarm', then a sleep of a second per
\* test until the test fails.
InnerHeadless ==
    /\ pc = "inner" /\ AlarmDue /\ ~with_gpio
    /\ now + TickTime <= MaxTime
    /\ now' = now + TickTime
    /\ pc' = "inner"
    /\ UNCHANGED <<config, caller, locals, held, hardware, fetch, calls, only_scenario>>
    /\ shown' = 0

\* Lines 237-238: the test fails: 'Ending alarm' and the resolve after the alarm.
InnerExit ==
    /\ pc = "inner" /\ ~AlarmDue
    /\ Call("post")
    /\ UNCHANGED <<now, config, held, hardware, only_scenario>>
    /\ shown' = 0

Next ==
    \/ UE_Poll
    \/ UE_Sleep
    \/ InitialResolve
    \/ RefreshReturn
    \/ PostAlarmReturn
    \/ RefreshCheck
    \/ ActivationTest
    \/ InnerSensor
    \/ PulseEnd
    \/ PauseEnd
    \/ InnerHeadless
    \/ InnerExit

Spec == Init /\ [][Next]_vars

\* ================================================================== claims

\* Some occurrence of the sequence evs satisfies start <= t < end.
SomeRunning(evs, t) == \E i \in DOMAIN evs : evs[i].start <= t /\ t < evs[i].end

\* The positions at which the activation test is evaluated.
AtTest == pc \in {"test", "inner"}

\* C1: the relay is energized only while the controller is Active: no run of
\* ticks, refreshes and sensor reads has the relay on outside the alarm loop.
RelayOnlyWhileActive == relay => Active

\* A pulse is running inside the alarm loop, after the loop has been left and
\* entered before.
PulseRunning == relay /\ pc = "pulse" /\ caller = "post"

\* C2: while every read of the sensor has said 'not present', the relay is off,
\* whatever the schedule and however long the alarm lasts.
NoPresenceNoRelay == ~ever_pressed => ~relay

\* The alarm loop has been spinning on a released sensor for two seconds.
ActiveWithoutPresence ==
    /\ pc = "inner" /\ with_gpio /\ AlarmDue
    /\ sensor = "released" /\ ~ever_pressed
    /\ now >= StartTime + 2

\* C3: every fetch failure is fatal to the call of the resolver: once a fetch
\* has failed, the resolver neither parses nor returns anything.
FetchFailureIsFatal == fetch = "failed" => pc = "crashed"

\* C4: a resolver failure during the periodic refresh ends the process: the
\* failing turn leads to the crash, nothing follows a crash, the relay is off
\* then, and an activation test that follows a refresh runs on what that refresh
\* returned.
RefreshFailureIsFatal ==
    /\ [](pc = "crashed" => ~relay)
    /\ []((caller = "refresh" /\ (AtTest \/ Active))
            => (calendar = u_calendar /\ events = u_events))
    /\ [][pc = "crashed" => UNCHANGED vars]_vars
    /\ [][(pc = "resolve" /\ caller = "refresh"
            /\ (~ical_string'.bound \/ ~ical_string'.valid))
           => pc' = "crashed"]_vars

\* A periodic refresh has crashed on a failed fetch while a set was held.
RefreshCrashed ==
    /\ pc = "crashed" /\ caller = "refresh" /\ fetch = "failed"
    /\ Len(events) >= 1

\* C5: the resolver returns only a non-empty set: it sleeps the poll interval
\* after every empty poll, returns after the first poll that is not empty, and
\* the set the controller holds is non-empty at every tick.
ResolverReturnsNonEmpty ==
    /\ []((pc \in {"tick", "test"} \/ Active) => Len(events) >= 1)
    /\ [](pc = "ue_ret" => Len(u_events) >= 1)
    /\ [](pc = "ue_sleep" => Len(u_events) = 0)
    /\ [][pc = "ue_sleep" => (pc' = "resolve" /\ now' = now + refresh_frequency)]_vars
    /\ [][(pc = "resolve" /\ pc' = "ue_sleep") => Len(u_events') = 0]_vars

\* The first resolve has returned after one empty poll and one sleep.
ReturnedAfterEmptyPoll ==
    /\ pc = "tick" /\ caller = "init"
    /\ last_update_time = StartTime + refresh_frequency
    /\ Len(events) >= 1

\* C6, as stated: with the scenario feed the state is Active after one outer
\* tick, and three seconds later the controller is back in the outer loop with
\* the resolver invoked once.
E2EBackToIdle ==
    only_scenario =>
        /\ (pc = "test" /\ now = StartTime) => AlarmDue
        /\ now >= StartTime + 3 => (pc \in {"tick", "test"} /\ calls = 1)

\* C6, amended: with the scenario feed the first outer tick finds the alarm due;
\* the alarm loop is left at the first test at or after the end of the
\* occurrence (two seconds after the start when headless); the resolver is then
\* invoked once and stays in its empty-calendar poll loop, so that the
\* controller is never back in the outer loop.
E2EStaysInResolver ==
    only_scenario =>
        /\ pc = "test" => AlarmDue
        /\ pc \in {"tick", "test"} => (now = StartTime /\ caller = "init")
        /\ Active => now <= StartTime + 1 + PulseTime + PauseTime
        /\ (Active /\ ~with_gpio) => now <= StartTime + 2
        /\ caller = "post" =>
              /\ calls = 1
              /\ pc \in {"resolve", "ue_sleep"}
              /\ now >= StartTime + 2
              /\ ~with_gpio => (now - (StartTime + 2)) % refresh_frequency = 0
        /\ pc # "crashed" /\ caller # "refresh"

\* Three seconds after the first tick the resolve after the alarm is asleep.
E2EAsleepInResolver ==
    /\ only_scenario /\ caller = "post" /\ pc = "ue_sleep"
    /\ now >= StartTime + 3

\* C7: an energized relay is switched off exactly one pulse later, a pause of
\* three seconds follows before the next test and sensor read, and the relay is
\* off at every sensor read.
PulseThenPause ==
    /\ [](pc = "inner" => ~relay)
    /\ [][relay => (~relay' /\ now' = now + PulseTime /\ pc' = "pause")]_vars
    /\ [][pc = "pause" => (~relay' /\ now' = now + PauseTime /\ pc' = "inner")]_vars

\* A pulse is over and its pause is running.
PauseRunning == pc = "pause" /\ ~relay /\ sensor = "pressed"

PostAlarmResolveOnce ==
    /\ []((caller = "post" /\ Idle) => calls = 1)
    /\ [][(pc = "ue_ret" /\ caller = "post")
           => (pc' = "tick" /\ last_update_time' = now)]_vars
    /\ [][(pc = "tick" /\ caller = "post" /\ now = last_update_time + TickTime)
           => (pc' = "test" /\ calls' = 1)]_vars

\* The activation test of the tick that follows an alarm, one resolve later.
FirstTestAfterAlarm ==
    /\ pc = "test" /\ caller = "post"
    /\ now = last_update_time + TickTime
    /\ calls = 1

\* C10, as stated: at every tick at which the time since the last resolve is
\* at least the refresh interval, the resolver runs before the activation test.
RefreshAtInterval ==
    [][(pc = "tick" /\ now - last_update_time >= refresh_frequency)
        => (pc' = "resolve" /\ caller' = "refresh")]_vars

\* C10, amended: the resolver runs before the activation test at every tick at
\* which the time since the last resolve exceeds the refresh interval, and at
\* no other tick.
RefreshAfterInterval ==
    [][pc = "tick" =>
        IF now - last_update_time > refresh_frequency
        THEN pc' = "resolve" /\ caller' = "refresh"
        ELSE pc' = "test" /\ UNCHANGED caller]_vars

\* An activation test at exactly the refresh interval, with no resolve before it.
TestAtInterval ==
    /\ pc = "test"
    /\ now - last_update_time = refresh_frequency

\* The occurrences of evs that start at s, in the order of evs.
StartingAt(evs, s) == SelectSeq(evs, LAMBDA o : o.start = s)

\* evs is ascending by start.
Ascending(evs) == \A i, j \in DOMAIN evs : i < j => evs[i].start <= evs[j].start

\* The expansion that the resolver has just sorted: the poll is at the instant now.
Expanded == Between(u_calendar, now, now + Window)

\* C11: what the resolver has sorted, and what it returns, is ascending by
\* start, and the occurrences of each start are those of the expansion in the
\* order they had there.
SortedAndStable ==
    /\ Ascending(events)
    /\ pc \in {"ue_ret", "ue_sleep"} =>
          /\ Ascending(u_events)
          /\ Len(u_events) = Len(Expanded)
          /\ \A s \in 0..MaxTime : StartingAt(u_events, s) = StartingAt(Expanded, s)

\* The resolver returns two occurrences of one start in their declared order,
\* the one that ends later first.
EqualStartsKept ==
    /\ pc = "ue_ret" /\ Len(u_events) = 2
    /\ u_events[1].start = u_events[2].start
    /\ u_events[1].end > u_events[2].end
    /\ u_events = u_calendar

\* The resolver returns two occurrences in the reverse of their declared order.
Reordered ==
    /\ pc = "ue_ret" /\ Len(u_events) = 2
    /\ u_events[1] = u_calendar[2] /\ u_events[2] = u_calendar[1]
    /\ u_events[1].start < u_events[2].start

\* The fingerprint that the returning resolver hands back.
NewHash == Hash(EventStr(u_events))

\* A resolve that follows an earlier one has its result ready.
SecondResult == pc = "ue_ret" /\ caller # "init"

\* C12, as stated: a resolver run over the bytes of the run before returns the
\* fingerprint of the run before, and a run whose occurrences differ in a start
\* or an end returns another fingerprint.
FingerprintOfBytes ==
    SecondResult =>
        /\ u_calendar = calendar => NewHash = event_hash
        /\ u_events # events => NewHash # event_hash

\* C12, amended: two resolver runs return the same fingerprint exactly when
\* they expand to the same sequence of occurrences, whatever the bytes.
FingerprintOfOccurrences ==
    SecondResult => (NewHash = event_hash <=> u_events = events)

\* The bytes of the run before give another fingerprint in a later window.
SameBytesNewFingerprint ==
    /\ SecondResult
    /\ u_calendar = calendar
    /\ NewHash # event_hash

\* C13: a fetch that times out leaves the resolver in a state that no fetch
\* ending otherwise (an HTTP failure, a success) leaves it in.
TimeoutIsDistinct ==
    pc = "resolve" =>
        \A r1, r2 \in FetchOutcomes :
            (r1.kind = "timeout" /\ r2.kind # "timeout") => AfterFetch(r1) # AfterFetch(r2)

\* C14: when a periodic refresh returns, the summary is shown exactly when the
\* new fingerprint differs from the stored one; either way the new calendar and
\* set are taken over and the activation test of the same tick decides on them.
SummaryGatedOnly ==
    /\ [][(pc = "ue_ret" /\ caller = "refresh") =>
            /\ pc' = "test" /\ now' = now
            /\ calendar' = u_calendar /\ events' = u_events
            /\ shown' = (IF NewHash # event_hash THEN 1 ELSE 0)]_vars
    /\ [][(pc = "test" /\ caller = "refresh" /\ now = last_update_time) =>
            IF SomeRunning(u_calendar, now) THEN pc' = "inner" ELSE pc' = "tick"]_vars

\* A refresh has returned the stored fingerprint, no summary was shown, and the
\* activation test of the tick finds the alarm due.
QuietRefreshThenAlarm ==
    /\ pc = "test" /\ caller = "refresh" /\ now = last_update_time
    /\ shown = 0
    /\ AlarmDue

\* C15: with a sensor, two consecutive activation tests of the alarm loop are
\* at least a second apart, also when the sensor is released and no pulse runs.
InnerTestsASecondApart ==
    [][(pc = "inner" /\ with_gpio /\ pc' = "inner") => now' >= now + TickTime]_vars

\* C16: without GPIO the alarm loop drives no hardware: the relay stays off and
\* the sensor is never read; each test that holds is followed by one sleep of a
\* second and the next test, and the first test that fails leaves the loop for
\* the resolve after the alarm, at the same instant.
HeadlessOnlySleeps ==
    /\ [](~with_gpio => (~relay /\ sensor = "unread" /\ pc \notin {"pulse", "pause"}))
    /\ [][(pc = "inner" /\ ~with_gpio) =>
            IF AlarmDue
            THEN pc' = "inner" /\ now' = now + TickTime /\ UNCHANGED <<caller, calls>>
            ELSE pc' = "resolve" /\ caller' = "post" /\ now' = now]_vars

HeadlessAlarmOver ==
    /\ pc = "resolve" /\ caller = "post" /\ ~with_gpio
    /\ fetch = "none"
    /\ ~AlarmDue /\ Len(At(calendar, now - TickTime)) > 0

\* C17: the relay is on only during the sleep of a pulse: it is off at every
\* refresh check and activation test, inside the resolver, at every test of the
\* alarm loop and during the pause, so the loop never ends with the relay on.
RelayOffOutsidePulse ==
    /\ pc # "pulse" => ~relay
    /\ (with_gpio /\ pc = "pulse") => relay

AlarmOverAfterPulse ==
    /\ pc = "resolve" /\ caller = "post" /\ fetch = "none"
    /\ with_gpio /\ sensor = "pressed" /\ ever_pressed
    /\ ~relay

\* C18: at every refresh check and activation test of the outer loop the stored
\* fingerprint is the one the last resolver return computed, and that return
\* is the one the held calendar and events came from: after the first resolve,
\* after a periodic one and after the one that follows an alarm.
StoredHashIsCurrent ==
    pc \in {"tick", "test"} =>
        /\ calendar = u_calendar
        /\ events = u_events
        /\ event_hash = NewHash
        /\ event_hash = Hash(EventStr(events))

TestAfterChangedRefresh ==
    /\ pc = "test" /\ caller = "refresh" /\ now = last_update_time
    /\ shown = 1
    /\ event_hash = NewHash

\* C19: from 'Starting alarm' to the test that fails, calendar, events,
\* event_hash and last_update_time stay as they are and update_events is not
\* called: no call is counted, the resolver's variables and the fetch outcome
\* stay as the last return left them, however many refresh intervals pass.  The
\* loop is left only by the failing test, into the resolve after the alarm.
AlarmLoopFrame ==
    /\ [](Active => calls = 0)
    /\ [][Active => UNCHANGED held]_vars
    /\ [][(Active /\ Active') => UNCHANGED <<caller, locals, fetch, calls>>]_vars
    /\ [][(Active /\ ~Active') =>
            /\ pc = "inner" /\ ~AlarmDue
            /\ pc' = "resolve" /\ caller' = "post" /\ calls' = 1]_vars

AlarmOutlastsRefreshes ==
    /\ pc = "inner" /\ AlarmDue
    /\ now > last_update_time + 2 * refresh_frequency
    /\ calls = 0

\* C20: a test of the alarm loop that fails comes at most four seconds (a pulse
\* and a pause) after an instant at which an occurrence was running when there
\* is a sensor, at most one second after it without GPIO; the failing test
\* leaves the loop at once, and a pulse starts only from a test that held.
LeavesLoopInTime ==
    /\ [](pc = "inner" =>
            \E k \in 0..(IF with_gpio THEN PulseTime + PauseTime ELSE TickTime) :
                Len(At(calendar, now - k)) > 0)
    /\ [][(pc = "inner" /\ ~AlarmDue) =>
            (pc' = "resolve" /\ caller' = "post" /\ now' = now /\ ~relay')]_vars
    /\ [][(pc' = "pulse" /\ pc # "pulse") => (pc = "inner" /\ AlarmDue)]_vars

EndedDuringPulse ==
    /\ pc = "inner" /\ with_gpio /\ sensor = "pressed" /\ ~AlarmDue
    /\ Len(At(calendar, now - (PulseTime + PauseTime))) > 0
    /\ \A k \in 0..(PulseTime + PauseTime - 1) : Len(At(calendar, now - k)) = 0

====
